---- MODULE Spec2Model ----
(***************************************************************************)
(* Model of src/bot/config.rs: the Configuration record with its getters,  *)
(* setters and PartialEq, the ConfigBuilder with its staging methods and   *)
(* build(), and the Arc<RwLock<Configuration>> stored under ConfigStore.   *)
(***************************************************************************)
EXTENDS Integers, Sequences, FiniteSets, TLC

(***************************************************************************)
(* Values.  An f32 is its IEEE-754 binary32 bit fields; a String / &str is *)
(* the sequence of its characters; an Option<T> is None or Some(v).        *)
(***************************************************************************)
PosZero == [sign |-> 0, exp |-> 0, frac |-> 0]
NegZero == [sign |-> 1, exp |-> 0, frac |-> 0]
NegOne == [sign |-> 1, exp |-> 127, frac |-> 0]
Thirty == [sign |-> 0, exp |-> 131, frac |-> 7340032]
NaN == [sign |-> 0, exp |-> 255, frac |-> 4194304]

IsNaN(x) == x.exp = 255 /\ x.frac # 0
IsZero(x) == x.exp = 0 /\ x.frac = 0

\* f32 compared by bit pattern instead of IEEE-754 equality
F32Eq_bitwise(a, b) == a = b

\* f32 `==` (PartialEq for f32): NaN equals nothing, +0.0 equals -0.0
F32Eq(a, b) ==
    /\ ~IsNaN(a)
    /\ ~IsNaN(b)
    /\ ((IsZero(a) /\ IsZero(b)) \/ a = b)

\* String `==`: same length and the same character at every index
StrEq(a, b) ==
    /\ Len(a) = Len(b)
    /\ \A i \in 1..Len(a) : a[i] = b[i]

\* String::from(&str) and String::clone: a fresh copy of the characters
StringFrom(s) == SubSeq(s, 1, Len(s))

None == [some |-> FALSE]
Some(v) == [some |-> TRUE, val |-> v]

DEFAULT_ASSETS_DIR == <<"a", "s", "s", "e", "t", "s">>
EmptyStr == <<>>

\* argument values the operations are driven with
BoolVals == {FALSE, TRUE}
F32Vals == {PosZero, NegOne, NaN}
StrVals == {EmptyStr, DEFAULT_ASSETS_DIR}
Option(S) == {None} \cup {Some(v) : v \in S}

\* the fields of Configuration in declaration order
FieldOrder ==
    <<"clear_calls", "muted", "flood_delay", "maintained", "poomp_delay",
      "assets_directory_path">>
NumFields == Len(FieldOrder)
FieldNames == {FieldOrder[i] : i \in 1..NumFields}

(***************************************************************************)
(* Configuration                                                           *)
(***************************************************************************)
Configuration_new ==
    [clear_calls |-> FALSE,
     muted |-> FALSE,
     flood_delay |-> PosZero,
     maintained |-> FALSE,
     poomp_delay |-> PosZero,
     assets_directory_path |-> StringFrom(DEFAULT_ASSETS_DIR)]

get_clear_calls(self) == self.clear_calls
clear_calls(self, new_value) == [self EXCEPT !.clear_calls = new_value]

muted(self) == self.muted
mute_and_clear(self, new_value) ==
    [self EXCEPT !.muted = new_value, !.clear_calls = FALSE]
mute(self, new_value) == [self EXCEPT !.muted = new_value]

get_flood_delay(self) == self.flood_delay
\* a setter that validates: a negative delay is stored as 0.0
set_flood_delay_clamped(self, new_value) ==
    [self EXCEPT !.flood_delay =
        IF new_value.sign = 1 /\ ~IsNaN(new_value) THEN PosZero ELSE new_value]
set_flood_delay(self, new_value) == [self EXCEPT !.flood_delay = new_value]

get_maintained(self) == self.maintained
set_maintained(self, new_value) == [self EXCEPT !.maintained = new_value]

get_poomp_delay(self) == self.poomp_delay
\* a setter that assigns the other delay field
set_poomp_delay_wrong_field(self, new_value) ==
    [self EXCEPT !.flood_delay = new_value]
set_poomp_delay(self, new_value) == [self EXCEPT !.poomp_delay = new_value]

get_assets_dir(self) == StringFrom(self.assets_directory_path)
set_assets_dir(self, new_value) ==
    [self EXCEPT !.assets_directory_path = StringFrom(new_value)]

\* equality that leaves one field out
Configuration_eq_skips_maintained(self, other) ==
    /\ self.clear_calls = get_clear_calls(other)
    /\ self.muted = muted(other)
    /\ F32Eq(self.flood_delay, get_flood_delay(other))
    /\ F32Eq(self.poomp_delay, get_poomp_delay(other))
    /\ StrEq(self.assets_directory_path, get_assets_dir(other))

\* impl PartialEq for Configuration
Configuration_eq(self, other) ==
    /\ self.clear_calls = get_clear_calls(other)
    /\ self.muted = muted(other)
    /\ F32Eq(self.flood_delay, get_flood_delay(other))
    /\ self.maintained = get_maintained(other)
    /\ F32Eq(self.poomp_delay, get_poomp_delay(other))
    /\ StrEq(self.assets_directory_path, get_assets_dir(other))

(***************************************************************************)
(* ConfigBuilder                                                           *)
(***************************************************************************)
\* a builder that starts with an override already staged
ConfigBuilder_new_staged ==
    [clear_command_calls |-> None,
     mute_bot |-> Some(TRUE),
     flood_delay |-> None,
     maintained |-> None,
     poomp_delay |-> None,
     assets_directory_path |-> None]

ConfigBuilder_new ==
    [clear_command_calls |-> None,
     mute_bot |-> None,
     flood_delay |-> None,
     maintained |-> None,
     poomp_delay |-> None,
     assets_directory_path |-> None]

ConfigBuilder_clear_calls(self, new_value) ==
    [self EXCEPT !.clear_command_calls = Some(new_value)]
ConfigBuilder_mute_bot(self, new_value) ==
    [self EXCEPT !.mute_bot = Some(new_value)]
\* a staging method that ignores None instead of clearing the override
ConfigBuilder_flood_delay_keeps(self, new_value) ==
    IF new_value.some THEN [self EXCEPT !.flood_delay = new_value] ELSE self
ConfigBuilder_flood_delay(self, new_value) ==
    [self EXCEPT !.flood_delay = new_value]
ConfigBuilder_maintained(self, new_value) ==
    [self EXCEPT !.maintained = new_value]
ConfigBuilder_poomp_delay(self, new_value) ==
    [self EXCEPT !.poomp_delay = new_value]
ConfigBuilder_assets_directory_path(self, new_value) ==
    [self EXCEPT !.assets_directory_path = new_value]

\* a build that forgets one staged field
ConfigBuilder_build_skips(self) ==
    LET c0 == Configuration_new
        c1 == IF self.clear_command_calls.some
              THEN clear_calls(c0, self.clear_command_calls.val) ELSE c0
        c2 == IF self.mute_bot.some
              THEN mute(c1, self.mute_bot.val) ELSE c1
        c3 == IF self.flood_delay.some
              THEN set_flood_delay(c2, self.flood_delay.val) ELSE c2
        c5 == IF self.poomp_delay.some
              THEN set_poomp_delay(c3, self.poomp_delay.val) ELSE c3
        c6 == IF self.assets_directory_path.some
              THEN set_assets_dir(c5, self.assets_directory_path.val) ELSE c5
    IN  c6

ConfigBuilder_build(self) ==
    LET c0 == Configuration_new
        c1 == IF self.clear_command_calls.some
              THEN clear_calls(c0, self.clear_command_calls.val) ELSE c0
        c2 == IF self.mute_bot.some
              THEN mute(c1, self.mute_bot.val) ELSE c1
        c3 == IF self.flood_delay.some
              THEN set_flood_delay(c2, self.flood_delay.val) ELSE c2
        c4 == IF self.maintained.some
              THEN set_maintained(c3, self.maintained.val) ELSE c3
        c5 == IF self.poomp_delay.some
              THEN set_poomp_delay(c4, self.poomp_delay.val) ELSE c4
        c6 == IF self.assets_directory_path.some
              THEN set_assets_dir(c5, self.assets_directory_path.val) ELSE c5
    IN  c6

(***************************************************************************)
(* State                                                                   *)
(***************************************************************************)
VARIABLES
    conf,       \* the caller's Configuration value
    builder,    \* the caller's ConfigBuilder
    held,       \* the Configuration returned by the build() before the last
    calls,      \* per field, the last ConfigBuilder call made for it
    lastOp,     \* the operation that ran last, its argument and result
    shared,     \* the Configuration inside the Arc<RwLock<Configuration>>
    rwlock,     \* the RwLock: who holds it for reading, who for writing
    rpc,        \* per reader task: idle, or the next field it reads
    wpc,        \* per writer task: idle or writing
    snap,       \* per reader task: the field values read under this lock
    committed   \* shared as the last released write lock left it

objVars == <<conf, builder, held, calls, lastOp>>
lockVars == <<shared, rwlock, rpc, wpc, snap, committed>>
vars == <<conf, builder, held, calls, lastOp, shared, rwlock, rpc, wpc, snap, committed>>

\* the caller keeps the earlier of two built values for MaxHold operations
MaxHold == 1
\* a builder is driven with calls for at most MaxStaged different fields
MaxStaged == 2
\* a setter is called while it leaves at most MaxSet fields off their default
MaxSet == 2

\* arguments and results recorded in lastOp, tagged with their Rust type
Unit == [unit |-> TRUE]
BoolVal(v) == [bool |-> v]
F32Val(v) == [f32 |-> v]
StrVal(v) == [string |-> v]
OptBoolVal(v) == [option_bool |-> v]
OptF32Val(v) == [option_f32 |-> v]
OptStrVal(v) == [option_string |-> v]
Operands(v) == [operands |-> v]
Absent == [present |-> FALSE]
Holding(c, n) == [present |-> TRUE, conf |-> c, age |-> n]
NotCalled == [called |-> FALSE]
Called(a) == [called |-> TRUE, arg |-> a]
Op(name, a, r) == [op |-> name, arg |-> a, ret |-> r]

\* reader and writer tasks of the host sharing the ConfigStore value
NumReaders == 2
NumWriters == 2
Readers == 1..NumReaders
Writers == 1..NumWriters

\* startup: Arc::new(RwLock::new(Configuration::new())), nobody holds the lock
LockInit ==
    /\ shared = Configuration_new
    /\ rwlock = [readers |-> {}, writers |-> {}]
    /\ rpc = [r \in Readers |-> 0]
    /\ wpc = [w \in Writers |-> "idle"]
    /\ snap = [r \in Readers |-> <<>>]
    /\ committed = Configuration_new

ObjInit ==
    /\ conf = Configuration_new
    /\ builder = ConfigBuilder_new
    /\ held = Absent
    /\ calls = [f \in FieldNames |-> NotCalled]
    /\ lastOp = Op("init", Unit, Unit)

Init == ObjInit /\ LockInit

\* the held value goes out of scope MaxHold operations after it was taken
HeldStep ==
    held' = IF held.present /\ held.age < MaxHold
            THEN Holding(held.conf, held.age + 1)
            ELSE Absent

CanSet(c) ==
    Cardinality({f \in FieldNames : c[f] # Configuration_new[f]}) <= MaxSet

CanStage(f) == Cardinality({g \in FieldNames : calls[g].called} \cup {f}) <= MaxStaged

(***************************************************************************)
(* Configuration operations on conf                                        *)
(***************************************************************************)
NewConfiguration ==
    /\ conf' = Configuration_new
    /\ lastOp' = Op("new", Unit, Unit)
    /\ HeldStep
    /\ UNCHANGED <<builder, calls, lockVars>>

GetClearCalls ==
    /\ lastOp' = Op("get_clear_calls", Unit, BoolVal(get_clear_calls(conf)))
    /\ HeldStep
    /\ UNCHANGED <<conf, builder, calls, lockVars>>

ClearCalls ==
    \E v \in BoolVals :
        /\ CanSet(clear_calls(conf, v))
        /\ conf' = clear_calls(conf, v)
        /\ lastOp' = Op("clear_calls", BoolVal(v), Unit)
        /\ HeldStep
        /\ UNCHANGED <<builder, calls, lockVars>>

Muted ==
    /\ lastOp' = Op("muted", Unit, BoolVal(muted(conf)))
    /\ HeldStep
    /\ UNCHANGED <<conf, builder, calls, lockVars>>

Mute ==
    \E v \in BoolVals :
        /\ CanSet(mute(conf, v))
        /\ conf' = mute(conf, v)
        /\ lastOp' = Op("mute", BoolVal(v), Unit)
        /\ HeldStep
        /\ UNCHANGED <<builder, calls, lockVars>>

GetFloodDelay ==
    /\ lastOp' = Op("get_flood_delay", Unit, F32Val(get_flood_delay(conf)))
    /\ HeldStep
    /\ UNCHANGED <<conf, builder, calls, lockVars>>

SetFloodDelay ==
    \E v \in F32Vals :
        /\ CanSet(set_flood_delay(conf, v))
        /\ conf' = set_flood_delay(conf, v)
        /\ lastOp' = Op("set_flood_delay", F32Val(v), Unit)
        /\ HeldStep
        /\ UNCHANGED <<builder, calls, lockVars>>

GetMaintained ==
    /\ lastOp' = Op("get_maintained", Unit, BoolVal(get_maintained(conf)))
    /\ HeldStep
    /\ UNCHANGED <<conf, builder, calls, lockVars>>

SetMaintained ==
    \E v \in BoolVals :
        /\ CanSet(set_maintained(conf, v))
        /\ conf' = set_maintained(conf, v)
        /\ lastOp' = Op("set_maintained", BoolVal(v), Unit)
        /\ HeldStep
        /\ UNCHANGED <<builder, calls, lockVars>>

GetPoompDelay ==
    /\ lastOp' = Op("get_poomp_delay", Unit, F32Val(get_poomp_delay(conf)))
    /\ HeldStep
    /\ UNCHANGED <<conf, builder, calls, lockVars>>

SetPoompDelay ==
    \E v \in F32Vals :
        /\ CanSet(set_poomp_delay(conf, v))
        /\ conf' = set_poomp_delay(conf, v)
        /\ lastOp' = Op("set_poomp_delay", F32Val(v), Unit)
        /\ HeldStep
        /\ UNCHANGED <<builder, calls, lockVars>>

GetAssetsDir ==
    /\ lastOp' = Op("get_assets_dir", Unit, StrVal(get_assets_dir(conf)))
    /\ HeldStep
    /\ UNCHANGED <<conf, builder, calls, lockVars>>

SetAssetsDir ==
    \E v \in StrVals :
        /\ CanSet(set_assets_dir(conf, v))
        /\ conf' = set_assets_dir(conf, v)
        /\ lastOp' = Op("set_assets_dir", StrVal(v), Unit)
        /\ HeldStep
        /\ UNCHANGED <<builder, calls, lockVars>>

\* conf == held, held == conf and conf == conf through PartialEq::eq
Eq ==
    /\ held.present
    /\ lastOp' = Op("eq", Operands("conf_held"), BoolVal(Configuration_eq(conf, held.conf)))
    /\ UNCHANGED <<conf, builder, held, calls, lockVars>>

EqSwapped ==
    /\ held.present
    /\ lastOp' = Op("eq", Operands("held_conf"), BoolVal(Configuration_eq(held.conf, conf)))
    /\ UNCHANGED <<conf, builder, held, calls, lockVars>>

EqSelf ==
    /\ lastOp' = Op("eq", Operands("conf_conf"), BoolVal(Configuration_eq(conf, conf)))
    /\ UNCHANGED <<conf, builder, held, calls, lockVars>>

(***************************************************************************)
(* ConfigBuilder operations on builder                                     *)
(***************************************************************************)
NewBuilder ==
    /\ builder' = ConfigBuilder_new
    /\ calls' = [f \in FieldNames |-> NotCalled]
    /\ lastOp' = Op("ConfigBuilder::new", Unit, Unit)
    /\ HeldStep
    /\ UNCHANGED <<conf, lockVars>>

BuilderClearCalls ==
    \E v \in BoolVals :
        /\ CanStage("clear_calls")
        /\ builder' = ConfigBuilder_clear_calls(builder, v)
        /\ calls' = [calls EXCEPT !["clear_calls"] = Called(Some(v))]
        /\ lastOp' = Op("ConfigBuilder::clear_calls", BoolVal(v), Unit)
        /\ HeldStep
        /\ UNCHANGED <<conf, lockVars>>

BuilderMuteBot ==
    \E v \in BoolVals :
        /\ CanStage("muted")
        /\ builder' = ConfigBuilder_mute_bot(builder, v)
        /\ calls' = [calls EXCEPT !["muted"] = Called(Some(v))]
        /\ lastOp' = Op("ConfigBuilder::mute_bot", BoolVal(v), Unit)
        /\ HeldStep
        /\ UNCHANGED <<conf, lockVars>>

BuilderFloodDelay ==
    \E v \in Option(F32Vals) :
        /\ CanStage("flood_delay")
        /\ builder' = ConfigBuilder_flood_delay(builder, v)
        /\ calls' = [calls EXCEPT !["flood_delay"] = Called(v)]
        /\ lastOp' = Op("ConfigBuilder::flood_delay", OptF32Val(v), Unit)
        /\ HeldStep
        /\ UNCHANGED <<conf, lockVars>>

BuilderMaintained ==
    \E v \in Option(BoolVals) :
        /\ CanStage("maintained")
        /\ builder' = ConfigBuilder_maintained(builder, v)
        /\ calls' = [calls EXCEPT !["maintained"] = Called(v)]
        /\ lastOp' = Op("ConfigBuilder::maintained", OptBoolVal(v), Unit)
        /\ HeldStep
        /\ UNCHANGED <<conf, lockVars>>

BuilderPoompDelay ==
    \E v \in Option(F32Vals) :
        /\ CanStage("poomp_delay")
        /\ builder' = ConfigBuilder_poomp_delay(builder, v)
        /\ calls' = [calls EXCEPT !["poomp_delay"] = Called(v)]
        /\ lastOp' = Op("ConfigBuilder::poomp_delay", OptF32Val(v), Unit)
        /\ HeldStep
        /\ UNCHANGED <<conf, lockVars>>

BuilderAssetsDirectoryPath ==
    \E v \in Option(StrVals) :
        /\ CanStage("assets_directory_path")
        /\ builder' = ConfigBuilder_assets_directory_path(builder, v)
        /\ calls' = [calls EXCEPT !["assets_directory_path"] = Called(v)]
        /\ lastOp' = Op("ConfigBuilder::assets_directory_path", OptStrVal(v), Unit)
        /\ HeldStep
        /\ UNCHANGED <<conf, lockVars>>

\* a build that takes the staged values out of the builder
Build_take ==
    /\ conf' = ConfigBuilder_build(builder)
    /\ builder' = ConfigBuilder_new
    /\ held' = IF lastOp.op = "build" THEN Holding(conf, 0) ELSE Absent
    /\ lastOp' = Op("build", Unit, Unit)
    /\ UNCHANGED <<calls, lockVars>>

\* conf = builder.build(); a value built by the call just before is kept
Build ==
    /\ conf' = ConfigBuilder_build(builder)
    /\ held' = IF lastOp.op = "build" THEN Holding(conf, 0) ELSE Absent
    /\ lastOp' = Op("build", Unit, Unit)
    /\ UNCHANGED <<builder, calls, lockVars>>

Next ==
    \/ NewConfiguration
    \/ GetClearCalls
    \/ ClearCalls
    \/ Muted
    \/ Mute
    \/ GetFloodDelay
    \/ SetFloodDelay
    \/ GetMaintained
    \/ SetMaintained
    \/ GetPoompDelay
    \/ SetPoompDelay
    \/ GetAssetsDir
    \/ SetAssetsDir
    \/ Eq
    \/ EqSwapped
    \/ EqSelf
    \/ NewBuilder
    \/ BuilderClearCalls
    \/ BuilderMuteBot
    \/ BuilderFloodDelay
    \/ BuilderMaintained
    \/ BuilderPoompDelay
    \/ BuilderAssetsDirectoryPath
    \/ Build

Spec == Init /\ [][Next]_vars

(***************************************************************************)
(* Equality driven over pairs of Configurations: conf and held.conf are    *)
(* any two values the setters can produce.                                 *)
(***************************************************************************)
F32All == F32Vals \cup {NegZero, Thirty}

AllConfigurations ==
    [clear_calls : BoolVals,
     muted : BoolVals,
     flood_delay : F32All,
     maintained : BoolVals,
     poomp_delay : F32All,
     assets_directory_path : StrVals]

InitEq ==
    /\ conf \in AllConfigurations
    /\ \E c \in AllConfigurations : held = Holding(c, 0)
    /\ builder = ConfigBuilder_new
    /\ calls = [f \in FieldNames |-> NotCalled]
    /\ lastOp = Op("init", Unit, Unit)
    /\ LockInit

NextEq == Eq \/ EqSwapped \/ EqSelf

SpecEq == InitEq /\ [][NextEq]_vars

(***************************************************************************)
(* The shared handle: Arc<RwLock<Configuration>> under ConfigStore.        *)
(* Readers take the read lock, call the six getters and release; writers   *)
(* take the write lock, call setters and release.                          *)
(***************************************************************************)
GetterAt(k, c) ==
    CASE k = 1 -> get_clear_calls(c)
      [] k = 2 -> muted(c)
      [] k = 3 -> get_flood_delay(c)
      [] k = 4 -> get_maintained(c)
      [] k = 5 -> get_poomp_delay(c)
      [] k = 6 -> get_assets_dir(c)

\* a read lock that is granted even while a writer holds the lock
ReadLock_ignores_writer(r) ==
    /\ rpc[r] = 0
    /\ rwlock' = [rwlock EXCEPT !.readers = @ \cup {r}]
    /\ rpc' = [rpc EXCEPT ![r] = 1]
    /\ snap' = [snap EXCEPT ![r] = <<>>]
    /\ UNCHANGED <<shared, wpc, committed, objVars>>

\* RwLock::read: granted while no writer holds the lock
ReadLock(r) ==
    /\ rpc[r] = 0
    /\ rwlock.writers = {}
    /\ rwlock' = [rwlock EXCEPT !.readers = @ \cup {r}]
    /\ rpc' = [rpc EXCEPT ![r] = 1]
    /\ snap' = [snap EXCEPT ![r] = <<>>]
    /\ UNCHANGED <<shared, wpc, committed, objVars>>

\* one getter call on the read guard
ReadField(r) ==
    /\ rpc[r] \in 1..NumFields
    /\ snap' = [snap EXCEPT ![r] = Append(@, GetterAt(rpc[r], shared))]
    /\ rpc' = [rpc EXCEPT ![r] = @ + 1]
    /\ UNCHANGED <<shared, rwlock, wpc, committed, objVars>>

\* the read guard is dropped
ReadUnlock(r) ==
    /\ rpc[r] = NumFields + 1
    /\ rwlock' = [rwlock EXCEPT !.readers = @ \ {r}]
    /\ rpc' = [rpc EXCEPT ![r] = 0]
    /\ snap' = [snap EXCEPT ![r] = <<>>]
    /\ UNCHANGED <<shared, wpc, committed, objVars>>

\* RwLock::write: granted while nobody holds the lock
WriteLock(w) ==
    /\ wpc[w] = "idle"
    /\ rwlock.writers = {}
    /\ rwlock.readers = {}
    /\ rwlock' = [rwlock EXCEPT !.writers = @ \cup {w}]
    /\ wpc' = [wpc EXCEPT ![w] = "writing"]
    /\ UNCHANGED <<shared, rpc, snap, committed, objVars>>

\* one setter call on the write guard
WriteField(w) ==
    /\ wpc[w] = "writing"
    /\ \/ \E v \in BoolVals : shared' = clear_calls(shared, v)
       \/ \E v \in BoolVals : shared' = mute(shared, v)
       \/ \E v \in F32Vals : shared' = set_flood_delay(shared, v)
       \/ \E v \in BoolVals : shared' = set_maintained(shared, v)
       \/ \E v \in F32Vals : shared' = set_poomp_delay(shared, v)
       \/ \E v \in StrVals : shared' = set_assets_dir(shared, v)
    /\ UNCHANGED <<rwlock, rpc, wpc, snap, committed, objVars>>

\* the write guard is dropped: the mutation is complete
WriteUnlock(w) ==
    /\ wpc[w] = "writing"
    /\ rwlock' = [rwlock EXCEPT !.writers = @ \ {w}]
    /\ wpc' = [wpc EXCEPT ![w] = "idle"]
    /\ committed' = shared
    /\ UNCHANGED <<shared, rpc, snap, objVars>>

ReaderAcquires == \E r \in Readers : ReadLock(r)
ReaderReads == \E r \in Readers : ReadField(r)
ReaderReleases == \E r \in Readers : ReadUnlock(r)
WriterAcquires == \E w \in Writers : WriteLock(w)
WriterWrites == \E w \in Writers : WriteField(w)
WriterReleases == \E w \in Writers : WriteUnlock(w)

NextLock ==
    \/ ReaderAcquires
    \/ ReaderReads
    \/ ReaderReleases
    \/ WriterAcquires
    \/ WriterWrites
    \/ WriterReleases

SpecLock == Init /\ [][NextLock]_vars

(***************************************************************************)
(* Vocabulary of the properties                                            *)
(***************************************************************************)
\* the documented default of every field
Defaults ==
    [clear_calls |-> FALSE,
     muted |-> FALSE,
     flood_delay |-> PosZero,
     maintained |-> FALSE,
     poomp_delay |-> PosZero,
     assets_directory_path |-> <<"a", "s", "s", "e", "t", "s">>]

DelayFields == {"flood_delay", "poomp_delay"}

\* field, its Configuration setter, its getter, its ConfigBuilder method
Accessors ==
    {[field |-> "clear_calls", setter |-> "clear_calls",
      getter |-> "get_clear_calls", stage |-> "ConfigBuilder::clear_calls"],
     [field |-> "muted", setter |-> "mute",
      getter |-> "muted", stage |-> "ConfigBuilder::mute_bot"],
     [field |-> "flood_delay", setter |-> "set_flood_delay",
      getter |-> "get_flood_delay", stage |-> "ConfigBuilder::flood_delay"],
     [field |-> "maintained", setter |-> "set_maintained",
      getter |-> "get_maintained", stage |-> "ConfigBuilder::maintained"],
     [field |-> "poomp_delay", setter |-> "set_poomp_delay",
      getter |-> "get_poomp_delay", stage |-> "ConfigBuilder::poomp_delay"],
     [field |-> "assets_directory_path", setter |-> "set_assets_dir",
      getter |-> "get_assets_dir",
      stage |-> "ConfigBuilder::assets_directory_path"]}

SetterOps == {a.setter : a \in Accessors}
GetterOps == {a.getter : a \in Accessors}
StageOps == {a.stage : a \in Accessors}

\* a value of field f as lastOp records it, and back
Tagged(f, v) ==
    CASE f \in DelayFields -> F32Val(v)
      [] f = "assets_directory_path" -> StrVal(v)
      [] OTHER -> BoolVal(v)
Untagged(f, t) ==
    CASE f \in DelayFields -> t.f32
      [] f = "assets_directory_path" -> t.string
      [] OTHER -> t.bool

ArgsOf(f) ==
    CASE f \in DelayFields -> F32Vals
      [] f = "assets_directory_path" -> StrVals
      [] OTHER -> BoolVals

\* the setter of field f applied to c
SetterFor(f, c, v) ==
    CASE f = "clear_calls" -> clear_calls(c, v)
      [] f = "muted" -> mute(c, v)
      [] f = "flood_delay" -> set_flood_delay(c, v)
      [] f = "maintained" -> set_maintained(c, v)
      [] f = "poomp_delay" -> set_poomp_delay(c, v)
      [] f = "assets_directory_path" -> set_assets_dir(c, v)

\* the getter of field f applied to c
GetterFor(f, c) ==
    CASE f = "clear_calls" -> get_clear_calls(c)
      [] f = "muted" -> muted(c)
      [] f = "flood_delay" -> get_flood_delay(c)
      [] f = "maintained" -> get_maintained(c)
      [] f = "poomp_delay" -> get_poomp_delay(c)
      [] f = "assets_directory_path" -> get_assets_dir(c)

\* what a builder has staged for field f
StagedFor(f, b) ==
    CASE f = "clear_calls" -> b.clear_command_calls
      [] f = "muted" -> b.mute_bot
      [] f = "flood_delay" -> b.flood_delay
      [] f = "maintained" -> b.maintained
      [] f = "poomp_delay" -> b.poomp_delay
      [] f = "assets_directory_path" -> b.assets_directory_path

\* the last ConfigBuilder call for f staged a value
LastCallStaged(f) == calls[f].called /\ calls[f].arg.some

HasNaN(c) == IsNaN(c.flood_delay) \/ IsNaN(c.poomp_delay)
StagedNaN(b) ==
    \/ (b.flood_delay.some /\ IsNaN(b.flood_delay.val))
    \/ (b.poomp_delay.some /\ IsNaN(b.poomp_delay.val))

\* Configuration::new() followed by the setter of every staged field
RECURSIVE ApplyStaged(_, _, _)
ApplyStaged(c, b, fs) ==
    IF fs = <<>> THEN c
    ELSE LET f == Head(fs)
             st == StagedFor(f, b)
         IN  ApplyStaged(IF st.some THEN SetterFor(f, c, st.val) ELSE c,
                         b, Tail(fs))

SettersFromNew(b) == ApplyStaged(Configuration_new, b, FieldOrder)

JustBuilt == lastOp.op = "build"
BuiltTwice == lastOp.op = "build" /\ held.present

(***************************************************************************)
(* C1  Round trip: a getter called right after the setter of its field     *)
(* returns exactly the value the setter was given, and a getter called     *)
(* right after build() returns exactly the value the last builder call for *)
(* its field staged.                                                       *)
(***************************************************************************)
C1_RoundTripStep ==
    \A a \in Accessors :
        /\ (lastOp.op = a.setter /\ lastOp'.op = a.getter)
              => lastOp'.ret = lastOp.arg
        /\ (lastOp.op = "build" /\ lastOp'.op = a.getter
                /\ LastCallStaged(a.field))
              => lastOp'.ret = Tagged(a.field, calls[a.field].arg.val)

C1_RoundTrip == [][C1_RoundTripStep]_vars

C1_Witness ==
    /\ lastOp.op = "get_poomp_delay"
    /\ lastOp.ret = F32Val(NaN)
    /\ calls["assets_directory_path"] = Called(Some(EmptyStr))

(***************************************************************************)
(* C2  Defaults: Configuration::new() and ConfigBuilder::new().build()     *)
(* compare equal and both hold the documented default of every field.      *)
(***************************************************************************)
C2_Defaults ==
    /\ lastOp.op = "new" =>
          /\ conf = Defaults
          /\ Configuration_eq(conf, ConfigBuilder_build(ConfigBuilder_new))
          /\ Configuration_eq(ConfigBuilder_build(ConfigBuilder_new), conf)
    /\ (JustBuilt /\ \A f \in FieldNames : ~calls[f].called) =>
          /\ conf = Defaults
          /\ Configuration_eq(conf, Configuration_new)
          /\ Configuration_eq(Configuration_new, conf)

C2_Witness ==
    /\ JustBuilt
    /\ \A f \in FieldNames : ~calls[f].called
    /\ conf.assets_directory_path = <<"a", "s", "s", "e", "t", "s">>

(***************************************************************************)
(* C3  Builder override order: after build() every field of the result is  *)
(* the value staged by the last builder call for that field, or the        *)
(* default when that call passed None or the field was never touched.      *)
(***************************************************************************)
C3_LastCallWins ==
    JustBuilt =>
        \A f \in FieldNames :
            conf[f] = IF LastCallStaged(f) THEN calls[f].arg.val
                      ELSE Defaults[f]

C3_Witness ==
    /\ JustBuilt
    /\ calls["flood_delay"] = Called(None)
    /\ calls["poomp_delay"] = Called(Some(NegOne))
    /\ conf.flood_delay = PosZero
    /\ conf.poomp_delay = NegOne

(***************************************************************************)
(* C4  Builder/setter equivalence.  As claimed: the built Configuration    *)
(* compares equal (==) to Configuration::new() followed by the setter of   *)
(* every staged field.                                                     *)
(***************************************************************************)
C4_Original ==
    JustBuilt => Configuration_eq(conf, SettersFromNew(builder))

(***************************************************************************)
(* C4 amended: the built Configuration has field for field the values of   *)
(* Configuration::new() followed by the setter of every staged field, and  *)
(* the two compare equal (==) exactly when no staged delay is NaN.         *)
(***************************************************************************)
C4_BuildIsSetters ==
    JustBuilt =>
        /\ conf = SettersFromNew(builder)
        /\ Configuration_eq(conf, SettersFromNew(builder))
              <=> ~StagedNaN(builder)

C4_Witness ==
    /\ JustBuilt
    /\ builder.clear_command_calls = Some(TRUE)
    /\ builder.poomp_delay = Some(NegOne)
    /\ conf.clear_calls = TRUE
    /\ conf.poomp_delay = NegOne

(***************************************************************************)
(* C5  Repeated build().  As claimed: two build() calls on the same        *)
(* builder state yield Configurations that compare equal (==).             *)
(***************************************************************************)
C5_Original ==
    BuiltTwice => Configuration_eq(held.conf, conf)

(***************************************************************************)
(* C5 amended: two build() calls on the same builder state yield           *)
(* Configurations with the same value in every field; they compare equal   *)
(* (==) exactly when no staged delay is NaN.                               *)
(***************************************************************************)
C5_BuildTwice ==
    BuiltTwice =>
        /\ held.conf = conf
        /\ Configuration_eq(held.conf, conf) <=> ~StagedNaN(builder)
        /\ Configuration_eq(conf, held.conf) <=> ~StagedNaN(builder)

C5_Witness ==
    /\ BuiltTwice
    /\ builder.flood_delay = Some(NegOne)
    /\ builder.maintained = Some(TRUE)
    /\ held.conf.flood_delay = NegOne

(***************************************************************************)
(* C8  Totality without validation: from every reachable state every       *)
(* setter and every builder method followed by build() yields a complete   *)
(* Configuration for every argument, and the argument (a negative or zero  *)
(* delay, NaN, an empty path) is stored and read back unchanged.           *)
(***************************************************************************)
ConfigurationType ==
    [clear_calls : BOOLEAN,
     muted : BOOLEAN,
     flood_delay : F32Vals,
     maintained : BOOLEAN,
     poomp_delay : F32Vals,
     assets_directory_path : StrVals]

C8_Total ==
    /\ conf \in ConfigurationType
    /\ ConfigBuilder_build(builder) \in ConfigurationType
    /\ \A f \in FieldNames : \A v \in ArgsOf(f) :
          /\ SetterFor(f, conf, v) \in ConfigurationType
          /\ GetterFor(f, SetterFor(f, conf, v)) = v
    /\ \A v \in Option(F32Vals) :
          /\ ConfigBuilder_build(ConfigBuilder_flood_delay(builder, v))
                \in ConfigurationType
          /\ ConfigBuilder_build(ConfigBuilder_poomp_delay(builder, v))
                \in ConfigurationType
          /\ v.some =>
                /\ get_flood_delay(ConfigBuilder_build(
                       ConfigBuilder_flood_delay(builder, v))) = v.val
                /\ get_poomp_delay(ConfigBuilder_build(
                       ConfigBuilder_poomp_delay(builder, v))) = v.val
    /\ \A v \in Option(StrVals) :
          /\ ConfigBuilder_build(ConfigBuilder_assets_directory_path(builder, v))
                \in ConfigurationType
          /\ v.some =>
                get_assets_dir(ConfigBuilder_build(
                    ConfigBuilder_assets_directory_path(builder, v))) = v.val
    /\ \A a \in Accessors :
          lastOp.op = a.setter => Tagged(a.field, conf[a.field]) = lastOp.arg

C8_Witness ==
    /\ lastOp.op = "set_flood_delay"
    /\ lastOp.arg = F32Val(NegOne)
    /\ conf.flood_delay = NegOne
    /\ conf.poomp_delay = PosZero
    /\ conf.assets_directory_path = EmptyStr

(***************************************************************************)
(* C9  build() leaves the builder as it was, and a built Configuration is  *)
(* independent of the builder and of other built values: a builder method  *)
(* changes neither conf nor the held value, a setter on conf does not      *)
(* change the held value.                                                  *)
(***************************************************************************)
C9_Step ==
    /\ lastOp'.op = "build" => builder' = builder
    /\ lastOp'.op \in StageOps \cup {"ConfigBuilder::new"} =>
          /\ conf' = conf
          /\ (held.present /\ held'.present) => held'.conf = held.conf
    /\ lastOp'.op \in SetterOps =>
          ((held.present /\ held'.present) => held'.conf = held.conf)

C9_BuildFrame == [][C9_Step]_vars

C9_Witness ==
    /\ held.present
    /\ held.age = 1
    /\ lastOp.op = "set_maintained"
    /\ conf.maintained = TRUE
    /\ held.conf.maintained = FALSE
    /\ held.conf = ConfigBuilder_build(builder)
    /\ builder.flood_delay = Some(NegOne)

(***************************************************************************)
(* C10  Frame: a setter changes only its own field, a builder method only  *)
(* its own staged field, a getter changes no field; hence a setter         *)
(* commutes with the setter of every other field.                          *)
(***************************************************************************)
C10_Step ==
    \A a \in Accessors :
        /\ lastOp'.op = a.setter =>
              /\ \A g \in FieldNames \ {a.field} : conf'[g] = conf[g]
              /\ builder' = builder
              /\ \A g \in FieldNames \ {a.field} : \A w \in ArgsOf(g) :
                    SetterFor(g, conf', w)
                      = SetterFor(a.field, SetterFor(g, conf, w),
                                  Untagged(a.field, lastOp'.arg))
        /\ lastOp'.op = a.stage =>
              /\ \A g \in FieldNames \ {a.field} :
                    StagedFor(g, builder') = StagedFor(g, builder)
              /\ conf' = conf
        /\ lastOp'.op = a.getter =>
              /\ conf' = conf
              /\ builder' = builder

C10_Frame == [][C10_Step]_vars

C10_Witness ==
    /\ lastOp.op = "mute"
    /\ lastOp.arg = BoolVal(TRUE)
    /\ conf.muted = TRUE
    /\ conf.flood_delay = NegOne
    /\ builder.maintained = Some(TRUE)

(***************************************************************************)
(* C6  Equality.  As claimed: == on Configuration is reflexive, symmetric  *)
(* and holds exactly when the six fields of the two values are the same.   *)
(***************************************************************************)
C6_Original ==
    (held.present /\ lastOp.op = "eq") =>
        /\ Configuration_eq(conf, conf)
        /\ Configuration_eq(conf, held.conf) <=> Configuration_eq(held.conf, conf)
        /\ Configuration_eq(conf, held.conf) <=> conf = held.conf

\* two values of field f compare equal: delays as IEEE-754 numbers (NaN
\* equals nothing, 0.0 equals -0.0), the other fields by identity
SameFieldValue(f, x, y) ==
    IF f \in DelayFields
    THEN ~IsNaN(x) /\ ~IsNaN(y) /\ (x = y \/ (IsZero(x) /\ IsZero(y)))
    ELSE x = y

DifferingFields(a, b) == {f \in FieldNames : a[f] # b[f]}

(***************************************************************************)
(* C6 amended: == on Configuration is symmetric and field-wise, a == b     *)
(* exactly when all six fields compare equal, the two delays as IEEE-754   *)
(* numbers; it is reflexive exactly on the Configurations with no NaN      *)
(* delay, so two Configurations from identical inputs are equal unless a   *)
(* delay is NaN; two Configurations without NaN delays differing in        *)
(* exactly one field are unequal unless that field is a delay that is 0.0  *)
(* in one and -0.0 in the other.                                           *)
(***************************************************************************)
C6_Equality ==
    held.present =>
        LET a == conf
            b == held.conf
        IN  /\ Configuration_eq(a, b) <=> Configuration_eq(b, a)
            /\ Configuration_eq(a, b)
                  <=> \A f \in FieldNames : SameFieldValue(f, a[f], b[f])
            /\ Configuration_eq(a, a) <=> ~HasNaN(a)
            /\ (a = b /\ ~HasNaN(a)) => Configuration_eq(a, b)
            /\ (Cardinality(DifferingFields(a, b)) = 1
                    /\ ~HasNaN(a) /\ ~HasNaN(b)) =>
                  (Configuration_eq(a, b) <=>
                      \E f \in DifferingFields(a, b) \cap DelayFields :
                          IsZero(a[f]) /\ IsZero(b[f]))
            /\ (lastOp.op = "eq" /\ lastOp.arg = Operands("conf_held"))
                  => lastOp.ret = BoolVal(Configuration_eq(a, b))
            /\ (lastOp.op = "eq" /\ lastOp.arg = Operands("held_conf"))
                  => lastOp.ret = BoolVal(Configuration_eq(b, a))
            /\ (lastOp.op = "eq" /\ lastOp.arg = Operands("conf_conf"))
                  => lastOp.ret = BoolVal(Configuration_eq(a, a))

C6_Witness ==
    /\ held.present
    /\ lastOp.op = "eq"
    /\ lastOp.arg = Operands("conf_held")
    /\ lastOp.ret = BoolVal(FALSE)
    /\ DifferingFields(conf, held.conf) = {"maintained"}
    /\ ~HasNaN(conf)

(***************************************************************************)
(* C7  No torn reads on the shared handle: no writer is inside its         *)
(* critical section while a reader or another writer is, and the field     *)
(* values a reader has read under its read lock are all those of the       *)
(* Configuration left by the last completed write.                         *)
(***************************************************************************)
C7_NoTornRead ==
    /\ \A w \in Writers :
          wpc[w] = "writing" =>
              /\ \A r \in Readers : rpc[r] = 0
              /\ \A w2 \in Writers \ {w} : wpc[w2] = "idle"
    /\ \A r \in Readers :
          rpc[r] >= 1 =>
              /\ Len(snap[r]) = rpc[r] - 1
              /\ \A k \in 1..Len(snap[r]) : snap[r][k] = committed[FieldOrder[k]]

C7_Witness ==
    \E r1, r2 \in Readers :
        /\ rpc[r1] = NumFields + 1
        /\ rpc[r2] \in 2..NumFields
        /\ snap[r1][1] = TRUE
        /\ snap[r1][3] = NegOne
        /\ snap[r1][6] = EmptyStr
====
